---- MODULE Spec2Model ----
(***************************************************************************)
(* A model of uptane_banners.py: print_banner (centred, optionally styled  *)
(* banner, optional wrapped body text, background fill, sound, timed hold) *)
(* and main (seven print_banner calls in a row).                           *)
(*                                                                         *)
(* A string is a sequence of one-character strings.  An emitted line is a  *)
(* sequence of tokens: one-character strings and the escape sequences of   *)
(* lines 27-46, each escape sequence being one token.  Everything the      *)
(* program does to the terminal, the speaker and the clock is appended to  *)
(* `log`, in the order in which it happens.                                *)
(***************************************************************************)
EXTENDS Integers, Sequences, FiniteSets, TLC

VARIABLES
  args,        \* the arguments of the running print_banner call
  rows, cols,  \* what get_screen_size returned to this call
  left_fill,   \* print_banner's local
  text_array,  \* print_banner's local
  pc,          \* position in print_banner
  err,         \* the exception the call raised, "none" when it raised none
  log,         \* the side effects of the running call, in order
  caller,      \* "lib": print_banner called on its own; "main": called by main
  idx,         \* main: the number of the running print_banner call (0 in "lib")
  BANNERS,     \* the module-level BANNER_* lists, as load_banner returned them
  wrap_text, wrap_width, wrap_out   \* textwrap.wrap applied on its own

vars == <<args, rows, cols, left_fill, text_array, pc, err, log, caller, idx,
          BANNERS, wrap_text, wrap_width, wrap_out>>

-----------------------------------------------------------------------------
(* Bounds *)

MaxRows == 4          \* get_screen_size returns 1..MaxRows rows
MaxWrap == 2          \* the widest wrap width (cols - 2 * margin_len)
SmallCols == 3        \* a terminal narrower than the margins
MaxBannerLines == 2   \* a banner has 1..MaxBannerLines lines
MaxTextLen == 4       \* textwrap.wrap on its own: paragraphs of up to this length

-----------------------------------------------------------------------------
(* Constants of the program *)

RED == "ESC[31m"
GREEN == "ESC[32m"
BLUE == "ESC[34m"
CYAN == "ESC[36m"
BLACK_BG == "ESC[40m"
GRAY_BG == "ESC[100m"
YELLOW_BG == "ESC[43m"
RESET_COLOR == "ESC[0m"
margin_len == 10

\* the messages of the two exceptions print_banner raises
WidthError == "Banner width exceeds terminal width."
HeightError == "Text exceeds terminal height."
\* the ValueError of textwrap.wrap
WrapError == "invalid width"

\* The sound paths imported from uptane_sounds, opaque to this module.
WON == "WON"
TADA == "TADA"
ICE == "ICE"
SATAN == "SATAN"
DOOMED == "DOOMED"
WITCH == "WITCH"

\* Python's falsy default of an optional argument (False, "" and 0 alike).
False == ""

Codes == {RED, GREEN, BLUE, CYAN, BLACK_BG, GRAY_BG, YELLOW_BG, RESET_COLOR}
FgCodes == {RED, GREEN, BLUE, CYAN}

-----------------------------------------------------------------------------
(* Strings *)

Spaces(n) == [i \in 1..n |-> " "]        \* n * " ", empty when n <= 0
Hashes(n) == [i \in 1..n |-> "#"]

RECURSIVE Concat(_)
Concat(ss) == IF ss = <<>> THEN <<>> ELSE Head(ss) \o Concat(Tail(ss))

Max(S) == CHOOSE x \in S : \A y \in S : y <= x

\* len(max(banner_array, key=len))
BannerWidth(banner) == Max({Len(banner[i]) : i \in 1..Len(banner)})

\* str.split("\n")
RECURSIVE Split(_, _)
Split(s, cur) ==
  IF s = <<>> THEN <<cur>>
  ELSE IF Head(s) = "\n" THEN <<cur>> \o Split(Tail(s), <<>>)
  ELSE Split(Tail(s), Append(cur, Head(s)))

-----------------------------------------------------------------------------
(* textwrap.wrap(line, width), as line 157 calls it: every option at its   *)
(* default (replace_whitespace, drop_whitespace, break_long_words).  The   *)
(* text is cut into chunks, maximal runs of blanks and of non-blanks, and  *)
(* the chunks are packed greedily into lines of at most `width`            *)
(* characters.                                                             *)

\* TextWrapper._munge_whitespace: every whitespace character becomes a space
Munge(s) == [i \in 1..Len(s) |-> IF s[i] = "\n" THEN " " ELSE s[i]]

\* chunk.strip() == ''
Blank(chunk) == \A i \in 1..Len(chunk) : chunk[i] = " "

\* TextWrapper._split: maximal runs of blanks and of non-blanks
RECURSIVE SplitChunks(_, _)
SplitChunks(s, cur) ==
  IF s = <<>> THEN (IF cur = <<>> THEN <<>> ELSE <<cur>>)
  ELSE IF cur = <<>> \/ ((Head(s) = " ") <=> (cur[1] = " "))
       THEN SplitChunks(Tail(s), Append(cur, Head(s)))
       ELSE <<cur>> \o SplitChunks(Tail(s), <<Head(s)>>)

\* how many leading chunks fit on the current line
RECURSIVE Fit(_, _, _)
Fit(chunks, width, cur_len) ==
  IF chunks # <<>> /\ cur_len + Len(Head(chunks)) <= width
  THEN 1 + Fit(Tail(chunks), width, cur_len + Len(Head(chunks)))
  ELSE 0

\* break_long_words = False: a chunk longer than the width is kept whole, on a
\* line of its own
KeepLongWord(chunks, cur_line, cur_len, width) ==
  IF cur_line = <<>>
  THEN [cur_line |-> <<Head(chunks)>>, chunks |-> Tail(chunks)]
  ELSE [cur_line |-> cur_line, chunks |-> chunks]

\* TextWrapper._handle_long_word with break_long_words = True (the default):
\* the chunk that is longer than the width is cut, and the current line takes
\* as much of it as still fits
handle_long_word(chunks, cur_line, cur_len, width) ==
  LET space_left == IF width < 1 THEN 1 ELSE width - cur_len
      chunk == Head(chunks)
  IN [cur_line |-> Append(cur_line, SubSeq(chunk, 1, space_left)),
      chunks |-> <<SubSeq(chunk, space_left + 1, Len(chunk))>> \o Tail(chunks)]

\* TextWrapper._wrap_chunks: one pass of its outer loop per recursion
RECURSIVE wrap_chunks(_, _, _)
wrap_chunks(chunks, width, lines) ==
  IF chunks = <<>> THEN lines
  ELSE
    LET c0 == IF Blank(Head(chunks)) /\ lines # <<>> THEN Tail(chunks) ELSE chunks
        n == Fit(c0, width, 0)
        taken == SubSeq(c0, 1, n)
        rest == SubSeq(c0, n + 1, Len(c0))
        long == rest # <<>> /\ Len(Head(rest)) > width
        h == IF long THEN handle_long_word(rest, taken, Len(Concat(taken)), width)
                     ELSE [cur_line |-> taken, chunks |-> rest]
        cur == h.cur_line
        line == IF cur # <<>> /\ Blank(cur[Len(cur)])
                THEN SubSeq(cur, 1, Len(cur) - 1) ELSE cur
        lines2 == IF line # <<>> THEN Append(lines, Concat(line)) ELSE lines
    IN wrap_chunks(h.chunks, width, lines2)

\* textwrap.wrap(line, width) for width > 0
wrap(line, width) == wrap_chunks(SplitChunks(Munge(line), <<>>), width, <<>>)

\* textwrap.wrap raises ValueError("invalid width") for a width below 1
InvalidWidth(width) == width <= 0

-----------------------------------------------------------------------------
(* print_banner: the pieces of its computation *)

\* Python's truth value of an optional argument: `if color:`, `if sound:`
\* (a string), `if show_for:` (a number) and `if text:` (a string or a list)
Truthy(v) == v # False
NonZero(n) == n # 0
TextGiven(t) == t.kind # "none" /\ t.val # <<>>

\* the width check off by one: a banner one column too wide passes
TooWideOffByOne(banner_width, c) == banner_width > c + 1

\* line 123: the banner does not fit the terminal's width
TooWide(banner_width, c) == banner_width > c

\* the odd column given to the left side instead of the right
LeftFillCeil(c, banner_width) ==
  IF banner_width = c THEN 0 ELSE (c - banner_width + 1) \div 2

\* lines 125-128
LeftFill(c, banner_width) ==
  IF banner_width = c THEN 0 ELSE (c - banner_width) \div 2

\* line 134
RightFill(c, lf, line_len) == c - lf - line_len

\* one reset per style code instead of one per line
StyledResetEach(output, color, color_bg) ==
  LET o1 == IF Truthy(color) THEN <<color>> \o output \o <<RESET_COLOR>> ELSE output
  IN IF Truthy(color_bg) THEN <<color_bg>> \o o1 \o <<RESET_COLOR>> ELSE o1

\* lines 137-144: the style codes around a padded banner line
Styled(output, color, color_bg) ==
  LET o1 == IF Truthy(color) THEN <<color>> \o output ELSE output
      o2 == IF Truthy(color_bg) THEN <<color_bg>> \o o1 ELSE o1
  IN IF Truthy(color) \/ Truthy(color_bg) THEN Append(o2, RESET_COLOR) ELSE o2

\* lines 134-146: what the loop prints for one banner line
BannerLine(line, c, lf, color, color_bg) ==
  Styled(Spaces(lf) \o line \o Spaces(RightFill(c, lf, Len(line))), color, color_bg)

\* lines 152-153: a string is split at "\n", a list is taken as it is
Paragraphs(t) == IF t.kind = "list" THEN t.val ELSE Split(t.val, <<>>)

\* lines 156-157
RECURSIVE WrapAll(_, _)
WrapAll(paragraphs, width) ==
  IF paragraphs = <<>> THEN <<>>
  ELSE wrap(Head(paragraphs), width) \o WrapAll(Tail(paragraphs), width)

\* line 160
TooTall(banner_len, text_len, r) == banner_len + text_len > r

\* "{output:^{width}}": the padding is split with the odd space on the right,
\* and a string that is already `width` long or longer is left as it is
Center(output, width) ==
  LET total == IF width > Len(output) THEN width - Len(output) ELSE 0
      left == total \div 2
  IN Spaces(left) \o output \o Spaces(total - left)

\* the background wrapped once around the whole line instead of around each
\* margin
TextLineOneBand(output, c, color_bg) ==
  LET plain == Spaces(margin_len) \o Center(output, c - 2 * margin_len)
                 \o Spaces(margin_len)
  IN IF Truthy(color_bg) THEN <<color_bg>> \o plain \o <<RESET_COLOR>> ELSE plain

\* lines 164-173: what the loop prints for one wrapped line of the text
TextLine(output, c, color_bg) ==
  LET output_width == c - 2 * margin_len
      plain == Spaces(margin_len)
      margin == IF Truthy(color_bg)
                THEN <<color_bg>> \o plain \o <<RESET_COLOR>> ELSE plain
  IN margin \o Center(output, output_width) \o margin

\* the fill without the row it leaves free
FillCountAll(r, banner_len, text_len) ==
  LET n == r - (banner_len + text_len) IN IF n > 0 THEN n ELSE 0

\* line 180: range(n) is empty for n <= 0
FillCount(r, banner_len, text_len) ==
  LET n == r - (banner_len + text_len) - 1 IN IF n > 0 THEN n ELSE 0

\* line 181
FillLine(c, color_bg) == <<color_bg>> \o Spaces(c) \o <<RESET_COLOR>>

-----------------------------------------------------------------------------
(* The log of side effects *)

Ev(kind) == [ev |-> kind, line |-> <<>>]
Printed(line) == [ev |-> "print", line |-> line]

-----------------------------------------------------------------------------
(* print_banner, one action per step of its body *)

\* line 117: get_screen_size() is asked anew by every call
GetScreenSize ==
  /\ pc = "start"
  /\ \E r \in 1..MaxRows,
        c \in {SmallCols} \cup (2 * margin_len + 1 .. 2 * margin_len + MaxWrap) :
       /\ rows' = r
       /\ cols' = c
  /\ log' = Append(log, Ev("size"))
  /\ pc' = "width"
  /\ UNCHANGED <<args, left_fill, text_array, err, caller, idx, BANNERS,
                 wrap_text, wrap_width, wrap_out>>

\* lines 121-128
CheckWidth ==
  /\ pc = "width"
  /\ LET banner_width == BannerWidth(args.banner_array) IN
       IF TooWide(banner_width, cols)
       THEN /\ err' = WidthError
            /\ pc' = "raised"
            /\ UNCHANGED left_fill
       ELSE /\ left_fill' = LeftFill(cols, banner_width)
            /\ pc' = "clear"
            /\ UNCHANGED err
  /\ UNCHANGED <<args, rows, cols, text_array, log, caller, idx, BANNERS,
                 wrap_text, wrap_width, wrap_out>>

\* line 130
ClearScreen ==
  /\ pc = "clear"
  /\ log' = Append(log, Ev("clear"))
  /\ pc' = "banner"
  /\ UNCHANGED <<args, rows, cols, left_fill, text_array, err, caller, idx,
                 BANNERS, wrap_text, wrap_width, wrap_out>>

\* lines 133-146: the loop over the banner's lines
PrintBannerLines ==
  /\ pc = "banner"
  /\ log' = log \o [i \in 1..Len(args.banner_array) |->
                      Printed(BannerLine(args.banner_array[i], cols, left_fill,
                                         args.color, args.color_bg))]
  /\ pc' = "text"
  /\ UNCHANGED <<args, rows, cols, left_fill, text_array, err, caller, idx,
                 BANNERS, wrap_text, wrap_width, wrap_out>>

\* the height checked after the text has been printed
WrapTextCheckLate ==
  /\ pc = "text"
  /\ IF ~TextGiven(args.text)
     THEN /\ text_array' = <<>>
          /\ pc' = "fill"
          /\ UNCHANGED <<err, log>>
     ELSE IF InvalidWidth(cols - 2 * margin_len)
     THEN /\ err' = WrapError
          /\ pc' = "raised"
          /\ UNCHANGED <<text_array, log>>
     ELSE LET wrapped == WrapAll(Paragraphs(args.text), cols - 2 * margin_len) IN
          /\ text_array' = wrapped
          /\ IF TooTall(Len(args.banner_array), Len(wrapped), rows)
             THEN /\ err' = HeightError
                  /\ pc' = "raised"
                  /\ log' = log \o [i \in 1..Len(wrapped) |->
                                      Printed(TextLine(wrapped[i], cols, args.color_bg))]
             ELSE /\ pc' = "textprint"
                  /\ UNCHANGED <<err, log>>
  /\ UNCHANGED <<args, rows, cols, left_fill, caller, idx, BANNERS,
                 wrap_text, wrap_width, wrap_out>>

\* lines 149-161: the text is wrapped and the height is checked, and only when
\* a text was passed
WrapText ==
  /\ pc = "text"
  /\ IF ~TextGiven(args.text)
     THEN /\ text_array' = <<>>
          /\ pc' = "fill"
          /\ UNCHANGED err
     ELSE IF InvalidWidth(cols - 2 * margin_len)
     THEN /\ err' = WrapError
          /\ pc' = "raised"
          /\ UNCHANGED text_array
     ELSE LET wrapped == WrapAll(Paragraphs(args.text), cols - 2 * margin_len) IN
          /\ text_array' = wrapped
          /\ IF TooTall(Len(args.banner_array), Len(wrapped), rows)
             THEN /\ err' = HeightError
                  /\ pc' = "raised"
             ELSE /\ pc' = "textprint"
                  /\ UNCHANGED err
  /\ UNCHANGED <<args, rows, cols, left_fill, log, caller, idx, BANNERS,
                 wrap_text, wrap_width, wrap_out>>

\* lines 163-175: the loop over the wrapped lines
PrintTextLines ==
  /\ pc = "textprint"
  /\ log' = log \o [i \in 1..Len(text_array) |->
                      Printed(TextLine(text_array[i], cols, args.color_bg))]
  /\ pc' = "fill"
  /\ UNCHANGED <<args, rows, cols, left_fill, text_array, err, caller, idx,
                 BANNERS, wrap_text, wrap_width, wrap_out>>

\* lines 179-181
FillBottom ==
  /\ pc = "fill"
  /\ log' = IF Truthy(args.color_bg)
            THEN log \o [i \in 1..FillCount(rows, Len(args.banner_array),
                                            Len(text_array)) |->
                           Printed(FillLine(cols, args.color_bg))]
            ELSE log
  /\ pc' = "sound"
  /\ UNCHANGED <<args, rows, cols, left_fill, text_array, err, caller, idx,
                 BANNERS, wrap_text, wrap_width, wrap_out>>

\* lines 183-184: play(sound, True) returns when the sound has been played
PlaySound ==
  /\ pc = "sound"
  /\ log' = IF Truthy(args.sound) THEN Append(log, Ev("play")) ELSE log
  /\ pc' = "show"
  /\ UNCHANGED <<args, rows, cols, left_fill, text_array, err, caller, idx,
                 BANNERS, wrap_text, wrap_width, wrap_out>>

\* the screen cleared at the end whether or not a duration was passed
ShowForAlwaysClears ==
  /\ pc = "show"
  /\ log' = IF NonZero(args.show_for)
            THEN log \o <<Ev("sleep"), Ev("clear")>> ELSE Append(log, Ev("clear"))
  /\ pc' = "returned"
  /\ UNCHANGED <<args, rows, cols, left_fill, text_array, err, caller, idx,
                 BANNERS, wrap_text, wrap_width, wrap_out>>

\* lines 186-188
ShowFor ==
  /\ pc = "show"
  /\ log' = IF NonZero(args.show_for)
            THEN log \o <<Ev("sleep"), Ev("clear")>> ELSE log
  /\ pc' = "returned"
  /\ UNCHANGED <<args, rows, cols, left_fill, text_array, err, caller, idx,
                 BANNERS, wrap_text, wrap_width, wrap_out>>

print_banner ==
  \/ GetScreenSize
  \/ CheckWidth
  \/ ClearScreen
  \/ PrintBannerLines
  \/ WrapText
  \/ PrintTextLines
  \/ FillBottom
  \/ PlaySound
  \/ ShowFor

-----------------------------------------------------------------------------
(* The inputs *)

\* A banner line is a run of "#": only its length matters to the layout.  The
\* lengths are those around the terminal widths get_screen_size can return.
LineLens == {0, 1, 2 * margin_len + 1, 2 * margin_len + MaxWrap + 1}
BannerLines == {Hashes(n) : n \in LineLens}
Banners == UNION {[1..n -> BannerLines] : n \in 1..MaxBannerLines}

NoText == [kind |-> "none", val |-> <<>>]
Str(s) == [kind |-> "str", val |-> s]
List(l) == [kind |-> "list", val |-> l]
Texts ==
  { NoText,
    Str(<<>>),                                   \* ""
    Str(<<" ">>),                                \* " "
    Str(<<"a">>),                                \* "a"
    Str(<<"a", "b", "\n", "c">>),                \* "ab\nc"
    Str(<<"a", "b", "c", " ", "d">>),            \* "abc d"
    List(<< <<"a", " ", "b">>, <<"c">> >>) }     \* ["a b", "c"]

Args(b, s, c, bg, t, snd) ==
  [banner_array |-> b, show_for |-> s, color |-> c, color_bg |-> bg,
   text |-> t, sound |-> snd]

InitLocals ==
  /\ rows = 0
  /\ cols = 0
  /\ left_fill = 0
  /\ text_array = <<>>
  /\ err = "none"
  /\ log = <<>>

NoWrapHarness ==
  /\ wrap_text = <<>>
  /\ wrap_width = 0
  /\ wrap_out = <<>>

\* print_banner called once, with any arguments
Init ==
  /\ args \in {Args(b, s, c, bg, t, snd) :
                 b \in Banners, s \in {0, 3}, c \in {False, RED},
                 bg \in {False, BLACK_BG}, t \in Texts, snd \in {False, WON}}
  /\ pc = "start"
  /\ caller = "lib"
  /\ idx = 0
  /\ BANNERS = <<>>
  /\ InitLocals
  /\ NoWrapHarness

Next == print_banner

Spec == Init /\ [][Next]_vars

-----------------------------------------------------------------------------
(* main: seven print_banner calls, one after the other *)

BannerNames == {"UPDATED", "DEFENDED", "FROZEN", "HACKED", "COMPROMISED",
                "REPLAY", "NO_UPDATE_NEEDED"}

\* What load_banner may find in an ascii/*.txt file: a small banner, and one
\* that ends in an empty line and is as wide as the narrowest terminal with
\* room for text.
FileContents == { <<Hashes(1)>>, <<Hashes(2 * margin_len + 1), Hashes(0)>> }

\* The text of lines 201-205, cut down to two short paragraphs so that a
\* terminal of the model can hold it.
MainText == Str(<<"a", "\n", "b">>)

NumCalls == 7

\* lines 207-213
MainArgs(i, B) ==
  CASE i = 1 -> Args(B["UPDATED"], 0, GREEN, False, MainText, WON)
    [] i = 2 -> Args(B["DEFENDED"], 0, BLUE, YELLOW_BG, MainText, TADA)
    [] i = 3 -> Args(B["FROZEN"], 0, CYAN, GRAY_BG, NoText, ICE)
    [] i = 4 -> Args(B["COMPROMISED"], 0, RED, BLACK_BG, NoText, SATAN)
    [] i = 5 -> Args(B["HACKED"], 0, RED, BLACK_BG, MainText, DOOMED)
    [] i = 6 -> Args(B["REPLAY"], 0, RED, BLACK_BG, NoText, WITCH)
    [] i = 7 -> Args(B["NO_UPDATE_NEEDED"], 3, RED, BLACK_BG, NoText, False)

\* an exception swallowed: main goes on after a call that raised
MainContinuesAfterError == pc \in {"returned", "raised"}

\* main goes on to its next statement when a call has returned; an exception
\* is caught nowhere and ends the run
MainContinues == pc = "returned"

\* the next statement of main
MainCall ==
  /\ caller = "main"
  /\ MainContinues
  /\ idx < NumCalls
  /\ idx' = idx + 1
  /\ args' = MainArgs(idx + 1, BANNERS)
  /\ pc' = "start"
  /\ rows' = 0
  /\ cols' = 0
  /\ left_fill' = 0
  /\ text_array' = <<>>
  /\ err' = "none"
  /\ log' = <<>>
  /\ UNCHANGED <<caller, BANNERS, wrap_text, wrap_width, wrap_out>>

\* main returns after its last statement
MainReturn ==
  /\ caller = "main"
  /\ MainContinues
  /\ idx = NumCalls
  /\ pc' = "exit"
  /\ UNCHANGED <<args, rows, cols, left_fill, text_array, err, log, caller,
                 idx, BANNERS, wrap_text, wrap_width, wrap_out>>

\* lines 191-197 have run, main is at its first statement
MainInit ==
  /\ BANNERS \in [BannerNames -> FileContents]
  /\ caller = "main"
  /\ idx = 1
  /\ args = MainArgs(1, BANNERS)
  /\ pc = "start"
  /\ InitLocals
  /\ NoWrapHarness

MainNext ==
  \/ print_banner
  \/ MainCall
  \/ MainReturn

MainSpec == MainInit /\ [][MainNext]_vars

-----------------------------------------------------------------------------
(* textwrap.wrap on its own: every paragraph of up to MaxTextLen characters *)
(* over two letters and the space, at every width of 1..MaxWrap             *)

Alphabet == {"a", "b", " "}
Paragraph == UNION {[1..n -> Alphabet] : n \in 0..MaxTextLen}

WrapInit ==
  /\ wrap_text \in Paragraph
  /\ wrap_width \in 1..MaxWrap
  /\ wrap_out = <<>>
  /\ pc = "wrap"
  /\ caller = "wrap"
  /\ idx = 0
  /\ BANNERS = <<>>
  /\ args = Args(<<>>, 0, False, False, NoText, False)
  /\ InitLocals

ApplyWrap ==
  /\ pc = "wrap"
  /\ wrap_out' = wrap(wrap_text, wrap_width)
  /\ pc' = "wrapped"
  /\ UNCHANGED <<args, rows, cols, left_fill, text_array, err, log, caller,
                 idx, BANNERS, wrap_text, wrap_width>>

WrapNext == ApplyWrap

WrapSpec == WrapInit /\ [][WrapNext]_vars

-----------------------------------------------------------------------------
(* What the properties below read off the state *)

B == Len(args.banner_array)
T == Len(text_array)

Visible(line) == SelectSeq(line, LAMBDA t : t \notin Codes)
IsPrint(e) == e.ev = "print"
PrintedLines == LET p == SelectSeq(log, IsPrint) IN [i \in 1..Len(p) |-> p[i].line]
Kinds(l) == [i \in 1..Len(l) |-> l[i].ev]
Rep(n, x) == [i \in 1..n |-> x]
Opt(cond, seq) == IF cond THEN seq ELSE <<>>

\* the banner loop has run
AfterBanner ==
  \/ pc \in {"text", "textprint", "fill", "sound", "show", "returned"}
  \/ pc = "raised" /\ err # WidthError
\* the text step has run and raised nothing
AfterText == pc \in {"fill", "sound", "show", "returned"}
\* the fill step has run
AfterFill == pc \in {"sound", "show", "returned"}

-----------------------------------------------------------------------------
(* C1: a banner whose longest line is longer than the terminal is wide     *)
(* makes print_banner raise "Banner width exceeds terminal width." with    *)
(* nothing done but the size query: no clear, no line, no sound, no pause. *)
C1_TooWideRaisesBeforeOutput ==
  (pc \notin {"start", "width"} /\ BannerWidth(args.banner_array) > cols)
    => /\ pc = "raised"
       /\ err = WidthError
       /\ log = <<Ev("size")>>

C1_Witness ==
  /\ pc = "raised"
  /\ err = WidthError
  /\ BannerWidth(args.banner_array) = cols + 1

(* C2: once the width check has passed and the text, if any, has been      *)
(* wrapped, print_banner has raised "Text exceeds terminal height." if and *)
(* only if B + T > rows, T being 0 when no text was passed.                *)
C2_TooTallIff ==
  (pc \in {"textprint", "fill", "sound", "show", "returned", "raised"}
     /\ err \notin {WidthError, WrapError})
    => ((err = HeightError) <=> (B + T > rows))

(* C3: for a banner that fits the width, left_fill is 0 when the banner is *)
(* as wide as the terminal and floor((cols - banner_width) / 2) otherwise, *)
(* and every emitted banner line is, style codes aside, left_fill spaces,  *)
(* the line, and cols - left_fill - len(line) spaces, a number that is     *)
(* never negative: cols characters in all.                                 *)
C3_BannerLinePadding ==
  AfterBanner =>
    LET bw == BannerWidth(args.banner_array) IN
    /\ bw = cols => left_fill = 0
    /\ bw < cols => 2 * left_fill <= cols - bw /\ cols - bw <= 2 * left_fill + 1
    /\ Len(PrintedLines) >= B
    /\ \A i \in 1..B :
         LET line == args.banner_array[i]
             right == cols - left_fill - Len(line)
         IN /\ right >= 0
            /\ Visible(PrintedLines[i]) = Rep(left_fill, " ") \o line \o Rep(right, " ")
            /\ Len(Visible(PrintedLines[i])) = cols

C3_Witness ==
  /\ pc = "text"
  /\ (cols - BannerWidth(args.banner_array)) % 2 = 1
  /\ left_fill > 0
  /\ \E i \in 1..B : Len(args.banner_array[i]) < BannerWidth(args.banner_array)

(* C4, as claimed: with a background style, a call that completes with a  *)
(* content that passes the size checks (B + T <= rows) has emitted exactly *)
(* rows - 1 lines since the clear.                                         *)
C4_AlwaysRowsMinusOne ==
  (pc = "returned" /\ Truthy(args.color_bg) /\ B + T <= rows)
    => Len(PrintedLines) = rows - 1

(* C4, amended: with a background style, the lines after the banner and    *)
(* the text are full-width background lines, max(0, rows - (B + T) - 1) of *)
(* them: rows - 1 lines in all when B + T <= rows - 1, and B + T lines,    *)
(* none of them a fill line, when the content takes every row or more.     *)
C4_FillToRowsMinusOne ==
  (AfterFill /\ Truthy(args.color_bg)) =>
    /\ Len(PrintedLines) = (IF B + T <= rows - 1 THEN rows - 1 ELSE B + T)
    /\ \A i \in (B + T + 1)..Len(PrintedLines) :
         PrintedLines[i] = <<args.color_bg>> \o Rep(cols, " ") \o <<RESET_COLOR>>

C4_Witness ==
  /\ pc = "returned"
  /\ Truthy(args.color_bg)
  /\ T > 0
  /\ B + T < rows - 1
  /\ Len(PrintedLines) = rows - 1

(* C5, as claimed: a banner line is the foreground code (if set), then the *)
(* background code (if set), then the padded content, then one reset when  *)
(* a style is set.                                                         *)
C5_ForegroundFirst ==
  AfterBanner =>
    \A i \in 1..B :
      PrintedLines[i] =
        Opt(Truthy(args.color), <<args.color>>)
          \o Opt(Truthy(args.color_bg), <<args.color_bg>>)
          \o Visible(PrintedLines[i])
          \o Opt(Truthy(args.color) \/ Truthy(args.color_bg), <<RESET_COLOR>>)

(* C5, amended: a banner line is the background code (if set), then the    *)
(* foreground code (if set), then the padded content, then exactly one     *)
(* reset when a style is set; with no style there is no code and no reset. *)
C5_BackgroundFirst ==
  AfterBanner =>
    \A i \in 1..B :
      /\ PrintedLines[i] =
           Opt(Truthy(args.color_bg), <<args.color_bg>>)
             \o Opt(Truthy(args.color), <<args.color>>)
             \o Visible(PrintedLines[i])
             \o Opt(Truthy(args.color) \/ Truthy(args.color_bg), <<RESET_COLOR>>)
      /\ Len(Visible(PrintedLines[i])) = cols

C5_Witness ==
  /\ pc = "text"
  /\ Truthy(args.color)
  /\ Truthy(args.color_bg)
  /\ PrintedLines[1][1] = args.color_bg
  /\ PrintedLines[1][2] = args.color

(* C6: what the wrapping is compared with *)

NonBlank(str) == SelectSeq(str, LAMBDA ch : ch # " ")

\* the whitespace-delimited words of a string, in order
RECURSIVE WordsFrom(_, _)
WordsFrom(str, cur) ==
  IF str = <<>> THEN Opt(cur # <<>>, <<cur>>)
  ELSE IF Head(str) = " "
       THEN Opt(cur # <<>>, <<cur>>) \o WordsFrom(Tail(str), <<>>)
       ELSE WordsFrom(Tail(str), Append(cur, Head(str)))
WordsOf(str) == WordsFrom(str, <<>>)

\* " ".join(lines)
RECURSIVE JoinSp(_)
JoinSp(lines) ==
  IF lines = <<>> THEN <<>>
  ELSE IF Len(lines) = 1 THEN lines[1]
  ELSE lines[1] \o <<" ">> \o JoinSp(Tail(lines))

HasLongWord(str, width) ==
  \E i \in 1..Len(WordsOf(str)) : Len(WordsOf(str)[i]) > width

(* C6, as claimed: wrapping never splits a word: the wrapped lines, joined *)
(* with spaces, have the paragraph's words in the paragraph's order, and a *)
(* word longer than the width is a line of its own, in full.               *)
C6_NeverSplitsWord ==
  pc = "wrapped" =>
    /\ WordsOf(JoinSp(wrap_out)) = WordsOf(wrap_text)
    /\ \A i \in 1..Len(WordsOf(wrap_text)) :
         Len(WordsOf(wrap_text)[i]) > wrap_width
           => \E j \in 1..Len(wrap_out) : wrap_out[j] = WordsOf(wrap_text)[i]

(* C6, amended: no wrapped line is longer than the width, and the wrapped  *)
(* lines hold the paragraph's non-blank characters, all of them and in     *)
(* order; when no word is longer than the width (and no word has a hyphen: *)
(* the paragraphs here have none) no word is split: the wrapped lines,     *)
(* joined with spaces, have the paragraph's words in order.  A word longer *)
(* than the width is cut, not kept whole.                                  *)
C6_SplitsOnlyLongWords ==
  pc = "wrapped" =>
    /\ \A j \in 1..Len(wrap_out) : Len(wrap_out[j]) <= wrap_width
    /\ NonBlank(Concat(wrap_out)) = NonBlank(wrap_text)
    /\ ~HasLongWord(wrap_text, wrap_width)
         => WordsOf(JoinSp(wrap_out)) = WordsOf(wrap_text)

C6_Witness ==
  /\ pc = "wrapped"
  /\ HasLongWord(wrap_text, wrap_width)
  /\ Len(WordsOf(wrap_text)) = 2
  /\ Len(wrap_out) = 3

(* C7: a call that returns has, in this order: asked for the terminal      *)
(* size, cleared the display once, emitted the banner's lines in the       *)
(* banner's order, then the wrapped lines of the text in their order, then *)
(* the fill lines, then played the sound if and only if one was passed,    *)
(* then slept and cleared again if and only if a duration was passed.      *)
C7_OrderOfEffects ==
  pc = "returned" =>
    LET n == Len(PrintedLines) IN
    /\ Kinds(log) = <<"size", "clear">> \o Rep(n, "print")
                      \o Opt(Truthy(args.sound), <<"play">>)
                      \o Opt(NonZero(args.show_for), <<"sleep", "clear">>)
    /\ n >= B + T
    /\ \A i \in 1..B : NonBlank(Visible(PrintedLines[i])) = args.banner_array[i]
    /\ \A j \in 1..T :
         NonBlank(Visible(PrintedLines[B + j])) = NonBlank(text_array[j])
    /\ \A k \in (B + T + 1)..n :
         /\ Truthy(args.color_bg)
         /\ NonBlank(Visible(PrintedLines[k])) = <<>>

C7_Witness ==
  /\ pc = "returned"
  /\ Truthy(args.sound)
  /\ NonZero(args.show_for)
  /\ T > 0
  /\ Len(PrintedLines) > B + T
  /\ Len(log) = Len(PrintedLines) + 5

(* C8: main makes its calls one at a time and in the order of lines        *)
(* 207-213: a call begins only when the call before it has returned, it    *)
(* begins with its own query of the terminal size, and after a call that   *)
(* raised nothing happens any more: no later banner, no retry.             *)
C8_Step ==
  /\ pc # "raised"
  /\ idx' # idx =>
       /\ pc = "returned"
       /\ idx' = idx + 1
       /\ pc' = "start"
       /\ log' = <<>>
       /\ args' = MainArgs(idx', BANNERS)
  /\ pc' = "width" => (pc = "start" /\ log' = <<Ev("size")>> /\ idx' = idx)
  /\ pc' = "exit" => (pc = "returned" /\ idx = NumCalls)

C8_OneCallAtATimeAbortOnError == [][C8_Step]_vars

C8_Witness ==
  /\ caller = "main"
  /\ idx = 5
  /\ pc = "raised"
  /\ err = HeightError

(* C9: with cols > 20, every emitted line of the text is a margin, the     *)
(* wrapped line centred in cols - 20 characters (the odd space on the      *)
(* right), and a margin: cols visible characters.  A margin is 10 spaces,  *)
(* with a background style the background code, 10 spaces and a reset; the *)
(* centred part has no style code, and the line has no foreground code.    *)
C9_TextLineLayout ==
  (AfterText /\ T > 0) =>
    /\ cols > 20
    /\ \A j \in 1..T :
         LET line == PrintedLines[B + j]
             txt == text_array[j]
             l == (cols - 20 - Len(txt)) \div 2
             r == cols - 20 - Len(txt) - l
             m == IF Truthy(args.color_bg)
                  THEN <<args.color_bg>> \o Rep(10, " ") \o <<RESET_COLOR>>
                  ELSE Rep(10, " ")
         IN /\ l >= 0
            /\ r >= l
            /\ line = m \o Rep(l, " ") \o txt \o Rep(r, " ") \o m
            /\ Len(Visible(line)) = cols
            /\ \A k \in 1..Len(line) : line[k] \notin FgCodes

C9_Witness ==
  /\ pc = "fill"
  /\ T > 0
  /\ Truthy(args.color)
  /\ Truthy(args.color_bg)
  /\ \E j \in 1..T : Len(text_array[j]) < cols - 20

(* C10: when "Text exceeds terminal height." is raised, the display has    *)
(* been cleared and the banner's lines, all of them and nothing else, have *)
(* been emitted: no line of the text, no fill line, no sound, no pause, no *)
(* second clear; and the call does nothing after it.                       *)
C10_TooTallLeavesBannerOnly ==
  err = HeightError =>
    /\ pc = "raised"
    /\ B + T > rows
    /\ Kinds(log) = <<"size", "clear">> \o Rep(B, "print")
    /\ \A i \in 1..B : NonBlank(Visible(PrintedLines[i])) = args.banner_array[i]

C10_Witness ==
  /\ err = HeightError
  /\ pc = "raised"
  /\ Truthy(args.color_bg)
  /\ Truthy(args.sound)
  /\ NonZero(args.show_for)
  /\ Len(PrintedLines) = B

====
